---- MODULE Spec2Model ----
(***************************************************************************)
(* The scoring and interpretation engine of how_kind_am_i (survey.py):     *)
(* LikertScaleQuestion.normalise, SurveyModel.aggregate, SurveyEngine.run  *)
(* and SurveyEngine.interpret_relationship_dynamics, and the interactive   *)
(* survey of the command line (cli.py): prompt_for_responses and run_cli.  *)
(*                                                                         *)
(* Every operation is a synchronous call: a call is a state with pc =      *)
(* "call" holding the receiver and the arguments, and the action of the    *)
(* operation takes it to pc = "done" with the outcome in ret.  An outcome  *)
(* is either a returned value or a raised exception.                       *)
(*                                                                         *)
(* A Python float is an IEEE 754 double.  <<num, den>>, in lowest terms,   *)
(* is the double nearest to num / den (the value of the Python expression  *)
(* num / den), and <<num, den, ulps>> with ulps # 0 is the double ulps     *)
(* places after it (before it when ulps < 0) in the order of the doubles:  *)
(* <<2, 3, 1>> is 0.6666666666666667, the value of 1.0 - 1 / 3, while      *)
(* <<2, 3>> is 0.6666666666666666, the value of 2 / 3.  A Python dict is   *)
(* modelled as the sequence of its <<key, value>> items in insertion order.*)
(***************************************************************************)
EXTENDS Integers, Sequences, FiniteSets, TLC

VARIABLES op, pc, question, raw_value, model, responses, models,
          aggregated_scores, ret, cli, heap, calls

vars == <<op, pc, question, raw_value, model, responses, models,
          aggregated_scores, ret, cli, heap, calls>>

(***************************************************************************)
(* Bounds of the model.                                                    *)
(***************************************************************************)
\* scale_min and scale_max range over 1..MaxScale, raw values over 0..MaxScale+1
MaxScale == 5
\* longest question list and longest response list of an aggregate call
MaxQuestions == 3
\* longest question list and longest response list of a model given to run
MaxRunQuestions == 2
\* the user gives at most this many answers other than the neutral answer of
\* the interactive survey
MaxVariedAnswers == 1
\* calls of run and of interpret_relationship_dynamics made on one engine,
\* all of which can be under way at the same time
MaxCalls == 2

(***************************************************************************)
(* Doubles.  Every double the program computes lies in [0, 1] and is a few *)
(* places away from a quotient of small integers, so its exact value is    *)
(*     num / den + err / (den * 2^exp)                                     *)
(* for small integers num, den, err and exp: 2^-exp is the distance        *)
(* between neighbouring doubles around num / den.  The operations compute  *)
(* the exact result in this form and round it to the nearest double, ties  *)
(* to even, as the hardware does.                                          *)
(***************************************************************************)
RECURSIVE GCD(_, _)
GCD(a, b) == IF b = 0 THEN a ELSE GCD(b, a % b)

LCM(a, b) == (a \div GCD(a, b)) * b

Max(a, b) == IF a > b THEN a ELSE b

RECURSIVE Pow2(_)
Pow2(k) == IF k = 0 THEN 1 ELSE 2 * Pow2(k - 1)

\* 2^s mod d
RECURSIVE Pow2Mod(_, _)
Pow2Mod(s, d) == IF s = 0 THEN 1 % d ELSE (2 * Pow2Mod(s - 1, d)) % d

\* the k with 2^-k <= n / d < 2^(1-k), for n > 0
RECURSIVE Binade(_, _)
Binade(n, d) ==
    IF n >= 2 * d THEN Binade(n, 2 * d) - 1
    ELSE IF n >= d THEN 0 ELSE 1 + Binade(2 * n, d)

\* the exponent of 2 in d
RECURSIVE TwoPart(_)
TwoPart(d) == IF d % 2 = 0 THEN 1 + TwoPart(d \div 2) ELSE 0

\* n / d, in lowest terms, is a power of two
IsPow2Frac(n, d) ==
    \/ n = 1 /\ d = Pow2(TwoPart(d))
    \/ d = 1 /\ n = Pow2(TwoPart(n))

\* (n * 2^s) mod d, which is 0 when d is a power of two that divides 2^s
Remainder(n, d, s) ==
    IF d = Pow2(TwoPart(d)) /\ s >= TwoPart(d) THEN 0
    ELSE ((n % d) * Pow2Mod(s, d)) % d

\* the fields of a double
Num(x) == x[1]
Den(x) == x[2]
Ulps(x) == IF Len(x) = 3 THEN x[3] ELSE 0

ExactZero == [num |-> 0, den |-> 1, err |-> 0, exp |-> 52]

\* -x
Neg(x) ==
    IF Ulps(x) = 0 THEN <<0 - Num(x), Den(x)>>
    ELSE <<0 - Num(x), Den(x), 0 - Ulps(x)>>

\* -e for an exact value e
ExactNeg(e) == [e EXCEPT !.num = 0 - e.num, !.err = 0 - e.err]

\* the exact value of the double x > 0, which lies ulps places from the
\* double nearest to num / den, on the grid 2^-s, where t is the remainder
\* of num * 2^s by den
ExactOnGrid(x, s, t) ==
    [num |-> Num(x), den |-> Den(x), exp |-> s,
     err |-> (IF 2 * t < Den(x) THEN 0 - t ELSE Den(x) - t)
             + Ulps(x) * Den(x)]

\* the exact value of the double x > 0, for s = 52 + Binade(num, den)
ExactInBinade(x, s) ==
    IF IsPow2Frac(Num(x), Den(x)) /\ Ulps(x) < 0
    \* below a power of two the doubles are twice as dense
    THEN [num |-> Num(x), den |-> Den(x), exp |-> s + 1,
          err |-> Ulps(x) * Den(x)]
    ELSE ExactOnGrid(x, s, Remainder(Num(x), Den(x), s))

\* the exact value of the double x
Exact(x) ==
    IF Num(x) = 0 THEN ExactZero
    ELSE IF Num(x) > 0
    THEN ExactInBinade(x, 52 + Binade(Num(x), Den(x)))
    ELSE ExactNeg(ExactInBinade(Neg(x), 52 + Binade(0 - Num(x), Den(x))))

\* the double ulps places from the double nearest to n / d
Double(n, d, ulps) == IF ulps = 0 THEN <<n, d>> ELSE <<n, d, ulps>>

\* 1 when the fraction rem / G is rounded up, ties to even: parity is the
\* parity of the integer below it
RoundUp(rem, G, parity) ==
    IF 2 * rem < G THEN 0
    ELSE IF 2 * rem > G THEN 1
    ELSE parity % 2

\* The double nearest to (q0 + F / G) * 2^-s1, for q0 = (n * 2^s1) div d
\* and t = (n * 2^s1) mod d: its place counted from the double nearest to
\* n / d, which is q0, or q0 + 1 when 2 * t >= d on the grid of n / d.
RoundQuotient(n, d, t, F, G, same_grid) ==
    Double(n, d,
           (F \div G)
             + RoundUp(F % G, G, (t \div Pow2(TwoPart(d))) + (F \div G))
             - (IF same_grid /\ 2 * t >= d THEN 1 ELSE 0))

\* the double nearest to n / d + C / (g * d * 2^S) on the grid 2^-s1
RoundOnGrid(n, d, g, C, S, s1, same_grid) ==
    RoundQuotient(n, d, Remainder(n, d, s1),
                  Remainder(n, d, s1) * g * Pow2(Max(0, S - s1))
                      + C * Pow2(Max(0, s1 - S)),
                  g * d * Pow2(Max(0, S - s1)),
                  same_grid)

\* the same for s0 = 52 + Binade(n, d): the grid is 2^-s0, and 2^-(s0+1)
\* below a power of two
RoundInBinade(n, d, g, C, S, s0) ==
    IF IsPow2Frac(n, d) /\ C < 0
    THEN RoundOnGrid(n, d, g, C, S, s0 + 1, FALSE)
    ELSE RoundOnGrid(n, d, g, C, S, s0, TRUE)

\* the same for n / d in lowest terms; a quotient of integers (C = 0)
\* rounds to the double nearest to it
RoundLowest(n, d, g, C, S) ==
    IF C = 0 THEN <<n, d>>
    ELSE RoundInBinade(n, d, g, C, S, 52 + Binade(n, d))

\* the double nearest to P / Q + C / (Q * 2^S), ties to even, for P > 0
RoundPositive(P, Q, C, S) ==
    RoundLowest(P \div GCD(P, Q), Q \div GCD(P, Q), GCD(P, Q), C, S)

\* the double nearest to P / Q + C / (Q * 2^S), ties to even
Round(P, Q, C, S) ==
    IF P = 0 THEN <<0, 1>>
    ELSE IF P > 0 THEN RoundPositive(P, Q, C, S)
    ELSE Neg(RoundPositive(0 - P, Q, 0 - C, S))

\* the double nearest to the exact value e
RoundExact(e) == Round(e.num, e.den, e.err, e.exp)

\* n / d for integers n and d > 0
Frac(n, d) == Round(n, d, 0, 52)

\* a + b, exactly, over the common denominator Q and the larger exponent S
ExactAdd(a, b) ==
    LET Q == LCM(a.den, b.den)
        S == Max(a.exp, b.exp)
    IN [num |-> a.num * (Q \div a.den) + b.num * (Q \div b.den),
        den |-> Q,
        err |-> a.err * (Q \div a.den) * Pow2(S - a.exp)
                + b.err * (Q \div b.den) * Pow2(S - b.exp),
        exp |-> S]

\* a - b
FSub(a, b) == RoundExact(ExactAdd(Exact(a), ExactNeg(Exact(b))))

\* a > n / d and a < n / d for a double a and the double nearest to n / d
FGt(a, n, d) ==
    IF Num(a) * d # n * Den(a) THEN Num(a) * d > n * Den(a) ELSE Ulps(a) > 0
FLt(a, n, d) ==
    IF Num(a) * d # n * Den(a) THEN Num(a) * d < n * Den(a) ELSE Ulps(a) < 0

(***************************************************************************)
(* Outcomes of a call.                                                     *)
(***************************************************************************)
None == [kind |-> "none"]
Return(v) == [kind |-> "return", value |-> v]
\* ValueError raised by normalise (the spec's RangeError)
RangeError(v, lo, hi) ==
    [kind |-> "raise", exc |-> "ValueError", raised_by |-> "normalise",
     raw_value |-> v, scale_min |-> lo, scale_max |-> hi]
\* ValueError raised by run (the spec's ValidationError)
ValidationError(name, expected, received) ==
    [kind |-> "raise", exc |-> "ValueError", raised_by |-> "run",
     name |-> name, expected |-> expected, received |-> received]
ZeroDivisionError == [kind |-> "raise", exc |-> "ZeroDivisionError"]

(***************************************************************************)
(* Dicts: sequences of <<key, value>> items in insertion order.            *)
(***************************************************************************)
Keys(d) == {d[i][1] : i \in 1..Len(d)}
KeySeq(d) == [i \in 1..Len(d) |-> d[i][1]]
Index(d, k) == CHOOSE i \in 1..Len(d) : d[i][1] = k
\* d.get(k, default)
Get(d, k, default) == IF k \in Keys(d) THEN d[Index(d, k)][2] ELSE default
\* d[k] = v: an existing key keeps its position
Put(d, k, v) ==
    IF k \in Keys(d) THEN [d EXCEPT ![Index(d, k)] = <<k, v>>]
    ELSE Append(d, <<k, v>>)

(***************************************************************************)
(* LikertScaleQuestion                                                     *)
(***************************************************************************)
DefaultScaleMin == 1
DefaultScaleMax == 5

LikertScaleQuestion(dimension, reverse_scored, scale_min, scale_max) ==
    [dimension |-> dimension, reverse_scored |-> reverse_scored,
     scale_min |-> scale_min, scale_max |-> scale_max]

\* mutant: the reverse_scored branch is missing
normalise_no_reverse(self, v) ==
    IF v < self.scale_min \/ v > self.scale_max
    THEN RangeError(v, self.scale_min, self.scale_max)
    ELSE IF self.scale_max - self.scale_min = 0 THEN ZeroDivisionError
    ELSE Return(Frac(v - self.scale_min, self.scale_max - self.scale_min))

\* mutant: the lower bound of the range check is off by one
normalise_low_off_by_one(self, v) ==
    IF v < self.scale_min - 1 \/ v > self.scale_max
    THEN RangeError(v, self.scale_min, self.scale_max)
    ELSE IF self.scale_max - self.scale_min <= 0 THEN ZeroDivisionError
    ELSE LET normalised == Frac(v - self.scale_min,
                                self.scale_max - self.scale_min)
         IN IF self.reverse_scored
            THEN Return(FSub(<<1, 1>>, normalised))
            ELSE Return(normalised)

normalise(self, v) ==
    IF v < self.scale_min \/ v > self.scale_max
    THEN RangeError(v, self.scale_min, self.scale_max)
    ELSE LET distance == v - self.scale_min
             scale_range == self.scale_max - self.scale_min
         IN IF scale_range = 0 THEN ZeroDivisionError
            ELSE LET normalised == Frac(distance, scale_range)
                 IN IF self.reverse_scored
                    THEN Return(FSub(<<1, 1>>, normalised))
                    ELSE Return(normalised)

(***************************************************************************)
(* Inputs of normalise: every question the constructor accepts with both   *)
(* scale bounds in 1..MaxScale (the dataclass checks nothing, so           *)
(* scale_min >= scale_max is included), every raw value around the scale.  *)
(***************************************************************************)
Dims == {"Trust Propensity", "Boundary Clarity"}
Questions ==
    {LikertScaleQuestion(d, r, lo, hi) :
        d \in Dims, r \in BOOLEAN, lo \in 1..MaxScale, hi \in 1..MaxScale}
RawValues == 0..(MaxScale + 1)

\* value of the variables a call does not use
Unused == <<>>

InitNormalise ==
    /\ op = "normalise"
    /\ pc = "call"
    /\ question \in Questions
    /\ raw_value \in RawValues
    /\ model = Unused
    /\ responses = Unused
    /\ models = Unused
    /\ aggregated_scores = Unused
    /\ ret = None
    /\ cli = Unused
    /\ heap = Unused
    /\ calls = Unused

\* question.normalise(raw_value)
Normalise ==
    /\ op = "normalise"
    /\ pc = "call"
    /\ ret' = normalise(question, raw_value)
    /\ pc' = "done"
    /\ UNCHANGED <<op, question, raw_value, model, responses, models,
                   aggregated_scores, cli, heap, calls>>

SpecNormalise == InitNormalise /\ [][Normalise]_vars

NormaliseDone == op = "normalise" /\ pc = "done"
InRange == question.scale_min <= raw_value /\ raw_value <= question.scale_max

Abs(n) == IF n < 0 THEN 0 - n ELSE n

\* the double x is at most 2^-53 away from n / d
Within53(x, n, d) ==
    LET e == Exact(x)
    IN /\ e.num * d = n * e.den
       /\ Abs(e.err) * Pow2(Max(0, 53 - e.exp))
              <= e.den * Pow2(Max(0, e.exp - 53))

\* C1: for a question with scale_min < scale_max and a raw value v within
\* the scale, normalise returns the double (v - scale_min) / (scale_max -
\* scale_min), or the double 1.0 minus it when the question is
\* reverse-scored, which is at most 2^-53 away from the exact
\* (scale_max - v) / (scale_max - scale_min); a reverse-scored question
\* returns 1.0 at scale_min and 0.0 at scale_max.
C1_NormaliseLinear ==
    (NormaliseDone /\ InRange /\ question.scale_min < question.scale_max) =>
        LET lo == question.scale_min
            hi == question.scale_max
            forward == normalise([question EXCEPT !.reverse_scored = FALSE],
                                 raw_value)
        IN /\ ret.kind = "return"
           /\ Den(ret.value) > 0
           /\ IF question.reverse_scored
              THEN /\ ret.value = FSub(<<1, 1>>, forward.value)
                   /\ Within53(ret.value, hi - raw_value, hi - lo)
                   /\ raw_value = lo => ret.value = <<1, 1>>
                   /\ raw_value = hi => ret.value = <<0, 1>>
              ELSE /\ Ulps(ret.value) = 0
                   /\ Num(ret.value) * (hi - lo)
                        = (raw_value - lo) * Den(ret.value)

\* a reverse-scored question on the default scale answered with 2 gives 3/4
C1_Witness ==
    /\ NormaliseDone
    /\ question.reverse_scored
    /\ question.scale_min = DefaultScaleMin
    /\ question.scale_max = DefaultScaleMax
    /\ raw_value = 2
    /\ ret = Return(<<3, 4>>)

\* C2: normalise raises the range error for every raw value below scale_min
\* or above scale_max, and returns a value for every raw value within the
\* scale.
C2_RangeCheck ==
    NormaliseDone =>
        IF InRange THEN ret.kind = "return"
        ELSE ret = RangeError(raw_value, question.scale_min,
                              question.scale_max)

\* the part of C2 the code satisfies: the range error exactly outside the
\* scale, and a returned value within the scale when scale_min < scale_max
C2_RangeCheckProperScale ==
    NormaliseDone =>
        IF ~InRange
        THEN ret = RangeError(raw_value, question.scale_min,
                              question.scale_max)
        ELSE question.scale_min < question.scale_max => ret.kind = "return"

(***************************************************************************)
(* SurveyModel                                                             *)
(***************************************************************************)
SurveyModel(name, questions) == [name |-> name, questions |-> questions]

Min(a, b) == IF a < b THEN a ELSE b

\* the exact sum of a list of doubles
RECURSIVE Sum(_)
Sum(values) ==
    IF values = <<>> THEN ExactZero
    ELSE ExactAdd(Exact(Head(values)), Sum(Tail(values)))

\* the exact sum of the values divided by n > 0 and rounded once
MeanOver(values, n) ==
    RoundExact([Sum(values) EXCEPT !.den = @ * n])

\* statistics.mean of a non-empty list
mean(values) == MeanOver(values, Len(values))

\* The for loop of aggregate from the i-th pair of zip(questions, responses)
\* on: the dict of per-dimension lists, or the first error of normalise.
RECURSIVE aggregate_loop(_, _, _, _)
aggregate_loop(questions, resp, i, dimension_scores) ==
    IF i > Min(Len(questions), Len(resp)) THEN Return(dimension_scores)
    ELSE LET n == normalise(questions[i], resp[i])
             dim == questions[i].dimension
         IN IF n.kind = "raise" THEN n
            ELSE aggregate_loop(questions, resp, i + 1,
                     Put(dimension_scores, dim,
                         Append(Get(dimension_scores, dim, <<>>), n.value)))

\* mutant: every dimension's sum is divided by the number of all responses
aggregate_mean_over_all(self, resp) ==
    LET r == aggregate_loop(self.questions, resp, 1, <<>>)
    IN IF r.kind = "raise" THEN r
       ELSE Return([i \in 1..Len(r.value) |->
                <<r.value[i][1],
                  MeanOver(r.value[i][2],
                           Min(Len(self.questions), Len(resp)))>>])

\* mutant: zip(..., strict=True), a length mismatch is an error
aggregate_zip_strict(self, resp) ==
    LET r == aggregate_loop(self.questions, resp, 1, <<>>)
    IN IF r.kind = "raise" THEN r
       ELSE IF Len(resp) # Len(self.questions)
       THEN ValidationError(self.name, Len(self.questions), Len(resp))
       ELSE Return([i \in 1..Len(r.value) |->
                <<r.value[i][1], mean(r.value[i][2])>>])

aggregate(self, resp) ==
    LET r == aggregate_loop(self.questions, resp, 1, <<>>)
    IN IF r.kind = "raise" THEN r
       ELSE Return([i \in 1..Len(r.value) |->
                <<r.value[i][1], mean(r.value[i][2])>>])

(***************************************************************************)
(* Inputs of aggregate: question lists and response lists of up to         *)
(* MaxQuestions entries, of equal or different lengths.                    *)
(***************************************************************************)
SeqsUpTo(S, n) == UNION {[1..k -> S] : k \in 0..n}

\* the default scale, a second scale, and a scale with scale_min = scale_max
AggScales == {<<DefaultScaleMin, DefaultScaleMax>>, <<1, 2>>, <<2, 2>>}
AggQuestions ==
    {LikertScaleQuestion(d, r, sc[1], sc[2]) :
        d \in Dims, r \in BOOLEAN, sc \in AggScales}
\* below every scale, inside every scale, inside the default scale only
AggRaw == {0, 2, 5}

InitAggregate ==
    /\ op = "aggregate"
    /\ pc = "call"
    /\ \E qs \in SeqsUpTo(AggQuestions, MaxQuestions) :
           model = SurveyModel("Attachment & Trust", qs)
    /\ responses \in SeqsUpTo(AggRaw, MaxQuestions)
    /\ question = Unused
    /\ raw_value = Unused
    /\ models = Unused
    /\ aggregated_scores = Unused
    /\ ret = None
    /\ cli = Unused
    /\ heap = Unused
    /\ calls = Unused

\* model.aggregate(responses)
Aggregate ==
    /\ op = "aggregate"
    /\ pc = "call"
    /\ ret' = aggregate(model, responses)
    /\ pc' = "done"
    /\ UNCHANGED <<op, question, raw_value, model, responses, models,
                   aggregated_scores, cli, heap, calls>>

SpecAggregate == InitAggregate /\ [][Aggregate]_vars

AggregateDone == op = "aggregate" /\ pc = "done"

\* the normalised value of one response as an unreduced pair, computed
\* without normalise
ExactNorm(q, v) ==
    <<IF q.reverse_scored THEN q.scale_max - v ELSE v - q.scale_min,
      q.scale_max - q.scale_min>>

\* sum of the exact normalised values of the pairs at the positions I
RECURSIVE PairSum(_, _, _)
PairSum(qs, rs, I) ==
    IF I = {} THEN <<0, 1>>
    ELSE LET i == CHOOSE j \in I : TRUE
             rest == PairSum(qs, rs, I \ {i})
             x == ExactNorm(qs[i], rs[i])
         IN <<x[1] * rest[2] + rest[1] * x[2], x[2] * rest[2]>>

AllInRange(qs, rs) ==
    \A i \in 1..Min(Len(qs), Len(rs)) :
        /\ qs[i].scale_min < qs[i].scale_max
        /\ qs[i].scale_min <= rs[i]
        /\ rs[i] <= qs[i].scale_max

PositionsOf(qs, d) == {i \in 1..Len(qs) : qs[i].dimension = d}

\* d is the dict of the per-dimension means of the first n pairs of (qs, rs)
IsMeansOf(d, qs, rs, n) ==
    /\ Keys(d) = {qs[i].dimension : i \in 1..n}
    /\ Len(d) = Cardinality(Keys(d))
    /\ \A k \in 1..Len(d) :
           LET I == PositionsOf(qs, d[k][1]) \cap 1..n
               s == PairSum(qs, rs, I)
               v == d[k][2]
           IN v[1] * s[2] * Cardinality(I) = s[1] * v[2]

\* C3: for N questions and N responses within the scales, aggregate returns
\* a dict whose keys are exactly the dimensions of the questions and whose
\* values are the arithmetic means of the normalised responses of the
\* questions of that dimension, in whatever order the dimensions appear.
C3_AggregateMeans ==
    (/\ AggregateDone
     /\ Len(responses) = Len(model.questions)
     /\ AllInRange(model.questions, responses)) =>
        /\ ret.kind = "return"
        /\ IsMeansOf(ret.value, model.questions, responses,
                     Len(model.questions))

\* dimensions interleaved (Boundary, Trust, Boundary) with a reverse-scored
\* question: Boundary = mean(1/4, 1 - 1) = 1/8, Trust = 1
C3_Witness ==
    /\ AggregateDone
    /\ model.questions =
         <<LikertScaleQuestion("Boundary Clarity", FALSE, 1, 5),
           LikertScaleQuestion("Trust Propensity", FALSE, 1, 5),
           LikertScaleQuestion("Boundary Clarity", TRUE, 1, 5)>>
    /\ responses = <<2, 5, 5>>
    /\ ret = Return(<<<<"Boundary Clarity", <<1, 8>>>>,
                      <<"Trust Propensity", <<1, 1>>>>>>)

(***************************************************************************)
(* SurveyEngine                                                            *)
(***************************************************************************)
\* The for loop of run from the i-th model on.
RECURSIVE run_loop(_, _, _, _)
run_loop(ms, resp, i, results) ==
    IF i > Len(ms) THEN Return(results)
    ELSE LET m == ms[i]
             model_responses == Get(resp, m.name, <<>>)
         IN IF Len(model_responses) # Len(m.questions)
            THEN ValidationError(m.name, Len(m.questions),
                                 Len(model_responses))
            ELSE LET a == aggregate(m, model_responses)
                 IN IF a.kind = "raise" THEN a
                    ELSE run_loop(ms, resp, i + 1,
                                  Put(results, m.name, a.value))

\* mutant: all the counts are validated before any model is aggregated
run_validate_first(ms, resp) ==
    LET Mismatch(i) == Len(Get(resp, ms[i].name, <<>>)) # Len(ms[i].questions)
    IN IF \E i \in 1..Len(ms) : Mismatch(i)
       THEN LET i == CHOOSE j \in 1..Len(ms) :
                         Mismatch(j) /\ \A k \in 1..(j - 1) : ~Mismatch(k)
            IN ValidationError(ms[i].name, Len(ms[i].questions),
                               Len(Get(resp, ms[i].name, <<>>)))
       ELSE run_loop(ms, resp, 1, <<>>)

\* mutant: a failing model ends the loop and the scores so far are returned
RECURSIVE run_partial_loop(_, _, _, _)
run_partial_loop(ms, resp, i, results) ==
    IF i > Len(ms) THEN Return(results)
    ELSE LET m == ms[i]
             model_responses == Get(resp, m.name, <<>>)
         IN IF Len(model_responses) # Len(m.questions)
            THEN Return(results)
            ELSE LET a == aggregate(m, model_responses)
                 IN IF a.kind = "raise" THEN Return(results)
                    ELSE run_partial_loop(ms, resp, i + 1,
                                          Put(results, m.name, a.value))

run_partial(ms, resp) == run_partial_loop(ms, resp, 1, <<>>)

\* mutant: results is rebuilt for every model, so only the last one is kept
run_last_only(ms, resp) ==
    LET r == run_loop(ms, resp, 1, <<>>)
    IN IF r.kind = "return" /\ Len(r.value) > 1
       THEN Return(<<r.value[Len(r.value)]>>)
       ELSE r

\* engine.run(responses), with ms = self.models
run(ms, resp) == run_loop(ms, resp, 1, <<>>)

(***************************************************************************)
(* Inputs of run: an engine of up to as many models as there are names     *)
(* (two models may share a name: __init__ checks nothing), each with up to *)
(* MaxRunQuestions questions, and a responses dict with, for any subset of *)
(* the names, up to MaxRunQuestions responses.                             *)
(***************************************************************************)
RunNameSeq == <<"Attachment & Trust", "Technical Influence Exchange">>
RunNames == {RunNameSeq[i] : i \in 1..Len(RunNameSeq)}
RunQuestions ==
    {LikertScaleQuestion("Trust Propensity", FALSE,
                         DefaultScaleMin, DefaultScaleMax),
     LikertScaleQuestion("Boundary Clarity", TRUE,
                         DefaultScaleMin, DefaultScaleMax)}
\* inside the default scale (twice) and above it
RunRaw == {2, 5, 6}
RunModels ==
    {SurveyModel(n, qs) :
        n \in RunNames, qs \in SeqsUpTo(RunQuestions, MaxRunQuestions)}

\* the dict with the items of the function f, in the order of RunNameSeq
DictOf(f) ==
    LET present == SelectSeq(RunNameSeq, LAMBDA n : n \in DOMAIN f)
    IN [i \in 1..Len(present) |-> <<present[i], f[present[i]]>>]

InitRun ==
    /\ op = "run"
    /\ pc = "call"
    /\ models \in SeqsUpTo(RunModels, Len(RunNameSeq))
    /\ \E P \in SUBSET RunNames :
         \E f \in [P -> SeqsUpTo(RunRaw, MaxRunQuestions)] :
             responses = DictOf(f)
    /\ question = Unused
    /\ raw_value = Unused
    /\ model = Unused
    /\ aggregated_scores = Unused
    /\ ret = None
    /\ cli = Unused
    /\ heap = Unused
    /\ calls = Unused

\* engine.run(responses)
Run ==
    /\ op = "run"
    /\ pc = "call"
    /\ ret' = run(models, responses)
    /\ pc' = "done"
    /\ UNCHANGED <<op, question, raw_value, model, responses, models,
                   aggregated_scores, cli, heap, calls>>

SpecRun == InitRun /\ [][Run]_vars

RunDone == op = "run" /\ pc = "done"

\* the responses supplied under the name of the i-th model
Supplied(i) == Get(responses, models[i].name, <<>>)
Mismatch(i) == Len(Supplied(i)) # Len(models[i].questions)
\* normalise raises for some response of the i-th model
Rejects(i) ==
    \E k \in 1..Min(Len(models[i].questions), Len(Supplied(i))) :
        normalise(models[i].questions[k], Supplied(i)[k]).kind = "raise"
\* the error of the first response of the i-th model that normalise rejects
FirstRejection(i) ==
    LET k == CHOOSE j \in 1..Len(Supplied(i)) :
                 /\ normalise(models[i].questions[j],
                              Supplied(i)[j]).kind = "raise"
                 /\ \A h \in 1..(j - 1) :
                        normalise(models[i].questions[h],
                                  Supplied(i)[h]).kind = "return"
    IN normalise(models[i].questions[k], Supplied(i)[k])
Fails(i) == Mismatch(i) \/ Rejects(i)
FirstOf(P(_)) ==
    CHOOSE i \in 1..Len(models) : P(i) /\ \A j \in 1..(i - 1) : ~P(j)
\* the error raised for the i-th model
ErrorOf(i) ==
    IF Mismatch(i)
    THEN ValidationError(models[i].name, Len(models[i].questions),
                         Len(Supplied(i)))
    ELSE FirstRejection(i)
DistinctNames ==
    \A i, j \in 1..Len(models) : models[i].name = models[j].name => i = j

\* C4 as stated: run fails with the count error whenever some configured
\* model has a number of responses different from its number of questions
\* (stated for engines whose model names are distinct).
C4_MismatchRaisesValidationError ==
    (RunDone /\ DistinctNames /\ \E i \in 1..Len(models) : Mismatch(i)) =>
        /\ ret.kind = "raise"
        /\ ret.exc = "ValueError"
        /\ ret.raised_by = "run"

\* C4 amended: whenever some configured model has a number of responses
\* different from its number of questions, run fails; it fails with the
\* count error of the first such model unless normalise raises for a
\* response of an earlier model, whose error is then the one raised.
C4_MismatchRaises ==
    (RunDone /\ \E i \in 1..Len(models) : Mismatch(i)) =>
        LET i == FirstOf(Mismatch)
        IN /\ ret.kind = "raise"
           /\ IF \A j \in 1..(i - 1) : ~Rejects(j)
              THEN ret = ValidationError(models[i].name,
                                         Len(models[i].questions),
                                         Len(Supplied(i)))
              ELSE /\ ret.raised_by = "normalise"
                   /\ ret = FirstRejection(FirstOf(Rejects))

\* the second model has no responses at all: its count error is raised
C4_Witness ==
    /\ RunDone
    /\ Len(models) = 2
    /\ ~Mismatch(1) /\ ~Rejects(1) /\ Len(models[1].questions) = 2
    /\ models[2].name \notin Keys(responses)
    /\ ret = ValidationError(models[2].name, 2, 0)

\* the i-th entry of the dict d is the name and the scores of the i-th model
EntryOfModel(d, i) ==
    /\ d[i][1] = models[i].name
    /\ IsMeansOf(d[i][2], models[i].questions, Supplied(i),
                 Len(models[i].questions))

\* C5 as stated: when every configured model has exactly as many responses
\* as questions, run returns a dict with one entry per configured model,
\* keyed by model name in configured order (stated for engines whose model
\* names are distinct).
C5_MatchingCountsSucceed ==
    (RunDone /\ DistinctNames /\ \A i \in 1..Len(models) : ~Mismatch(i)) =>
        /\ ret.kind = "return"
        /\ KeySeq(ret.value) = [i \in 1..Len(models) |-> models[i].name]

\* C5 amended: when every configured model has exactly as many responses as
\* questions, normalise returns a value for every response (each response
\* lies within the scale of its question) and the model names are distinct,
\* run returns a dict with one entry per configured model, keyed by model
\* name in configured order and holding that model's aggregate; with
\* matching counts and a response that normalise rejects, run fails with the
\* error normalise raises for the first rejected response of the first
\* model that has one.
C5_ValidInputSucceeds ==
    /\ (RunDone /\ DistinctNames /\ \A i \in 1..Len(models) : ~Fails(i)) =>
           /\ ret.kind = "return"
           /\ Len(ret.value) = Len(models)
           /\ \A i \in 1..Len(models) : EntryOfModel(ret.value, i)
    /\ (/\ RunDone
        /\ \A i \in 1..Len(models) : ~Mismatch(i)
        /\ \E i \in 1..Len(models) : Rejects(i)) =>
           /\ ret.kind = "raise"
           /\ ret = FirstRejection(FirstOf(Rejects))

\* two models, two answered questions each, in the order opposite to the
\* order of the names in the responses
C5_Witness ==
    /\ RunDone
    /\ Len(models) = 2
    /\ models[1].name = RunNameSeq[2]
    /\ models[2].name = RunNameSeq[1]
    /\ Len(models[1].questions) = 2
    /\ Len(models[2].questions) = 2
    /\ \A i \in 1..2 : ~Fails(i)
    /\ ret.kind = "return"
    /\ KeySeq(ret.value) = <<RunNameSeq[2], RunNameSeq[1]>>

\* C6 as stated: a run that fails has stopped at the first configured model
\* whose response count mismatches, raising that model's count error, and
\* returns no scores.
C6_FailureIsFirstMismatch ==
    (RunDone /\ DistinctNames /\ ret.kind # "return") =>
        /\ \E i \in 1..Len(models) : Mismatch(i)
        /\ ret = ErrorOf(FirstOf(Mismatch))

\* C6 amended: a run fails exactly when some configured model has a
\* mismatching response count or a response for which normalise raises; it
\* stops at the first such model in configured order, raising the count
\* error if that model's count mismatches and the error of normalise
\* otherwise, and the caller receives that error and no scores at all, also
\* when earlier models were aggregated.
C6_FailureIsFirstFailingModel ==
    RunDone =>
        IF \E i \in 1..Len(models) : Fails(i)
        THEN /\ ret = ErrorOf(FirstOf(Fails))
             /\ ret.kind = "raise"
             /\ "value" \notin DOMAIN ret
        ELSE ret.kind = "return"

\* the first model is aggregated, the second has a response too few
C6_Witness ==
    /\ RunDone
    /\ Len(models) = 2
    /\ ~Fails(1) /\ Len(models[1].questions) > 0
    /\ Len(models[2].questions) = 2 /\ Len(Supplied(2)) = 1
    /\ ret = ValidationError(models[2].name, 2, 1)

(***************************************************************************)
(* aggregate and run together: the operations that produce scores.         *)
(***************************************************************************)
SpecScoring == (InitAggregate \/ InitRun) /\ [][Aggregate \/ Run]_vars

\* the double v lies in [0.0, 1.0]
InUnit(v) ==
    /\ Den(v) > 0
    /\ 0 <= Num(v)
    /\ Num(v) <= Den(v)
    /\ Num(v) = 0 => Ulps(v) >= 0
    /\ Num(v) = Den(v) => Ulps(v) <= 0

\* C10: every dimension score in the dict returned by run, and in the dict
\* returned by aggregate, lies in [0, 1].
C10_ScoresInUnitInterval ==
    /\ (AggregateDone /\ ret.kind = "return") =>
           \A k \in 1..Len(ret.value) : InUnit(ret.value[k][2])
    /\ (RunDone /\ ret.kind = "return") =>
           \A i \in 1..Len(ret.value) :
               \A k \in 1..Len(ret.value[i][2]) :
                   InUnit(ret.value[i][2][k][2])

\* a run returning a score strictly between 0 and 1
C10_Witness ==
    /\ RunDone
    /\ ret.kind = "return"
    /\ \E i \in 1..Len(ret.value) :
           \E k \in 1..Len(ret.value[i][2]) : ret.value[i][2][k][2] = <<5, 8>>

(***************************************************************************)
(* interpret_relationship_dynamics.  A narrative is written as the opening *)
(* words of its text.                                                      *)
(***************************************************************************)
Half == <<1, 2>>

LikingSocialEase == "Your blend of social ease and empathic signalling"
LikingSteady == "People experience you as steady and considerate"
LikingFallback == "Initial impressions may feel analytical."
TechnicalCraft == "Your reputation leans toward precise, craft-focused delivery."
TechnicalGreenfield == "You shine in greenfield problem spaces"
TechnicalStructure == "Documenting interfaces and test strategies early"
TechnicalFallback == "Clarify how you balance experimentation with delivery"
ManagerReliable == "Your managers will read you as a reliable escalation partner"
ManagerScopes == "Agree on decision scopes explicitly"
ManagerRhythm == "Share your preferred operating rhythm"
ManagerFallback == "Regular demo notes and retro snippets"
PeerCandid == "You foster candid design discussions"
PeerPairing == "Expect peers to appreciate your pairing invites"
PeerAsync == "Schedule routine async updates"
PeerFallback == "Keep signalling curiosity in peers' approaches"
MentorCoach == "Mentees will see you as an invested coach"
MentorOnboarding == "Structured onboarding plus openness to new tooling"
MentorAgreements == "Co-create working agreements"
MentorFallback == "Blend documented guidance with exploratory growth conversations."
CommunityDemos == "You animate study chats with live demos"
CommunityIterate == "Sharing how you iterate through bugs"
CommunityFallback == "Post recap notes and invite lightning talks"
ReviewCraft == "Review feedback will read as craft-enriching and actionable"
ReviewIntent == "Signal positive intent and ask clarifying questions"
ReviewDetail == "Your detail orientation keeps regressions out"
ReviewFallback == "Offer context on architectural goals"

big_five(s) == Get(s, "Big Five Snapshot", <<>>)
attachment(s) == Get(s, "Attachment & Trust", <<>>)
collaboration(s) == Get(s, "Collaboration Style", <<>>)
motivation(s) == Get(s, "Work Orientation & Craft", <<>>)
\* mutant: an absent Team Psychological Safety model is scored 0
safety_absent_as_zero(s) ==
    Get(s, "Team Psychological Safety",
        <<<<"Psychological Safety", <<0, 1>>>>>>)

safety(s) == Get(s, "Team Psychological Safety", <<>>)
mindset(s) == Get(s, "Learning Mindset & Resilience", <<>>)
influence(s) == Get(s, "Technical Influence Exchange", <<>>)

describe_liking(s) ==
    LET agreeableness == Get(big_five(s), "Agreeableness", Half)
        extraversion == Get(big_five(s), "Extraversion", Half)
        stability == Get(big_five(s), "Emotional Stability", Half)
        empathy == Get(influence(s), "Empathic Communication", Half)
    IN IF FGt(agreeableness, 7, 10) /\ FGt(extraversion, 6, 10)
          /\ FGt(empathy, 6, 10)
       THEN LikingSocialEase
       ELSE IF FGt(stability, 6, 10) /\ FGt(empathy, 5, 10)
       THEN LikingSteady
       ELSE LikingFallback

describe_technical_relationship(s) ==
    LET conscientiousness == Get(big_five(s), "Conscientiousness", Half)
        openness == Get(big_five(s), "Openness", Half)
        mastery == Get(motivation(s), "Mastery Focus", Half)
        autonomy == Get(motivation(s), "Autonomy Drive", Half)
        structure == Get(collaboration(s), "Structure Preference", Half)
    IN IF FGt(mastery, 7, 10) /\ FGt(conscientiousness, 7, 10)
       THEN TechnicalCraft
       ELSE IF FGt(openness, 6, 10) /\ FGt(autonomy, 6, 10)
       THEN TechnicalGreenfield
       ELSE IF FGt(structure, 6, 10)
       THEN TechnicalStructure
       ELSE TechnicalFallback

\* mutant: the Boundary Clarity rule is tested before the trust rule
describe_manager_relationship_boundary_first(s) ==
    LET trust == Get(attachment(s), "Trust Propensity", Half)
        boundary == Get(attachment(s), "Boundary Clarity", Half)
        autonomy == Get(motivation(s), "Autonomy Drive", Half)
        feedback == Get(influence(s), "Feedback Exchange", Half)
    IN IF FLt(boundary, 4, 10)
       THEN ManagerScopes
       ELSE IF FGt(trust, 7, 10) /\ FGt(feedback, 6, 10)
       THEN ManagerReliable
       ELSE IF FGt(autonomy, 65, 100)
       THEN ManagerRhythm
       ELSE ManagerFallback

describe_manager_relationship(s) ==
    LET trust == Get(attachment(s), "Trust Propensity", Half)
        boundary == Get(attachment(s), "Boundary Clarity", Half)
        autonomy == Get(motivation(s), "Autonomy Drive", Half)
        feedback == Get(influence(s), "Feedback Exchange", Half)
    IN IF FGt(trust, 7, 10) /\ FGt(feedback, 6, 10)
       THEN ManagerReliable
       ELSE IF FLt(boundary, 4, 10)
       THEN ManagerScopes
       ELSE IF FGt(autonomy, 65, 100)
       THEN ManagerRhythm
       ELSE ManagerFallback

\* mutant: a missing Support Orientation is read as 0 instead of 0.5
describe_peer_relationship_zero_default(s) ==
    LET agreeableness == Get(big_five(s), "Agreeableness", Half)
        support == Get(collaboration(s), "Support Orientation", <<0, 1>>)
        safety_avg == Get(safety(s), "Psychological Safety", Half)
        feedback == Get(influence(s), "Feedback Exchange", Half)
    IN IF FGt(safety_avg, 65, 100) /\ FGt(feedback, 6, 10)
       THEN PeerCandid
       ELSE IF FGt(agreeableness, 7, 10) /\ FGt(support, 6, 10)
       THEN PeerPairing
       ELSE IF FLt(support, 4, 10)
       THEN PeerAsync
       ELSE PeerFallback

describe_peer_relationship(s) ==
    LET agreeableness == Get(big_five(s), "Agreeableness", Half)
        support == Get(collaboration(s), "Support Orientation", Half)
        safety_avg == Get(safety(s), "Psychological Safety", Half)
        feedback == Get(influence(s), "Feedback Exchange", Half)
    IN IF FGt(safety_avg, 65, 100) /\ FGt(feedback, 6, 10)
       THEN PeerCandid
       ELSE IF FGt(agreeableness, 7, 10) /\ FGt(support, 6, 10)
       THEN PeerPairing
       ELSE IF FLt(support, 4, 10)
       THEN PeerAsync
       ELSE PeerFallback

describe_subordinate_relationship(s) ==
    LET guidance == Get(collaboration(s), "Structure Preference", Half)
        openness == Get(big_five(s), "Openness", Half)
        mastery == Get(motivation(s), "Mastery Focus", Half)
        coaching == Get(influence(s), "Mentorship Stance", Half)
    IN IF FGt(coaching, 65, 100) /\ FGt(mastery, 6, 10)
       THEN MentorCoach
       ELSE IF FGt(guidance, 7, 10) /\ FGt(openness, 5, 10)
       THEN MentorOnboarding
       ELSE IF FLt(guidance, 4, 10)
       THEN MentorAgreements
       ELSE MentorFallback

describe_chatroom_relationship(s) ==
    LET extraversion == Get(big_five(s), "Extraversion", Half)
        openness == Get(big_five(s), "Openness", Half)
        resilience == Get(mindset(s), "Challenge Resilience", Half)
        learning == Get(mindset(s), "Learning Agility", Half)
    IN IF FGt(extraversion, 6, 10) /\ FGt(learning, 6, 10)
       THEN CommunityDemos
       ELSE IF FGt(resilience, 65, 100)
       THEN CommunityIterate
       ELSE CommunityFallback

describe_code_review(s) ==
    LET conscientiousness == Get(big_five(s), "Conscientiousness", Half)
        safety_avg == Get(safety(s), "Psychological Safety", Half)
        feedback == Get(influence(s), "Feedback Exchange", Half)
        mastery == Get(motivation(s), "Mastery Focus", Half)
    IN IF FGt(mastery, 7, 10) /\ FGt(feedback, 6, 10)
       THEN ReviewCraft
       ELSE IF FLt(safety_avg, 45, 100)
       THEN ReviewIntent
       ELSE IF FGt(conscientiousness, 65, 100)
       THEN ReviewDetail
       ELSE ReviewFallback

\* mutant: the catalog variant without the Code Review Dynamics context
interpret_without_code_review(s) ==
    Return(<<<<"General Liking", describe_liking(s)>>,
             <<"Technical Collaboration", describe_technical_relationship(s)>>,
             <<"Manager Relationship", describe_manager_relationship(s)>>,
             <<"Peer Relationship", describe_peer_relationship(s)>>,
             <<"Mentor/Lead Relationship",
               describe_subordinate_relationship(s)>>,
             <<"Learning Community", describe_chatroom_relationship(s)>>>>)

\* engine.interpret_relationship_dynamics(aggregated_scores)
interpret_relationship_dynamics(s) ==
    Return(<<<<"General Liking", describe_liking(s)>>,
             <<"Technical Collaboration", describe_technical_relationship(s)>>,
             <<"Manager Relationship", describe_manager_relationship(s)>>,
             <<"Peer Relationship", describe_peer_relationship(s)>>,
             <<"Mentor/Lead Relationship",
               describe_subordinate_relationship(s)>>,
             <<"Learning Community", describe_chatroom_relationship(s)>>,
             <<"Code Review Dynamics", describe_code_review(s)>>>>)

(***************************************************************************)
(* Inputs of interpret_relationship_dynamics: for one context, every       *)
(* assignment of a score, or of no score, to each dimension the context's  *)
(* rules read; a model without any score is absent from the dict or        *)
(* present with an empty dict.  The scores lie on, between and beyond the  *)
(* thresholds of the rules.                                                *)
(***************************************************************************)
ModelNameSeq ==
    <<"Big Five Snapshot", "Attachment & Trust", "Collaboration Style",
      "Work Orientation & Craft", "Team Psychological Safety",
      "Learning Mindset & Resilience", "Technical Influence Exchange">>

ContextSeq ==
    <<"General Liking", "Technical Collaboration", "Manager Relationship",
      "Peer Relationship", "Mentor/Lead Relationship", "Learning Community",
      "Code Review Dynamics">>

\* the <<model, dimension>> lookups of the describe function of a context
ReadKeys(c) ==
    CASE c = "General Liking" ->
           <<<<"Big Five Snapshot", "Agreeableness">>,
             <<"Big Five Snapshot", "Extraversion">>,
             <<"Big Five Snapshot", "Emotional Stability">>,
             <<"Technical Influence Exchange", "Empathic Communication">>>>
      [] c = "Technical Collaboration" ->
           <<<<"Big Five Snapshot", "Conscientiousness">>,
             <<"Big Five Snapshot", "Openness">>,
             <<"Work Orientation & Craft", "Mastery Focus">>,
             <<"Work Orientation & Craft", "Autonomy Drive">>,
             <<"Collaboration Style", "Structure Preference">>>>
      [] c = "Manager Relationship" ->
           <<<<"Attachment & Trust", "Trust Propensity">>,
             <<"Attachment & Trust", "Boundary Clarity">>,
             <<"Work Orientation & Craft", "Autonomy Drive">>,
             <<"Technical Influence Exchange", "Feedback Exchange">>>>
      [] c = "Peer Relationship" ->
           <<<<"Big Five Snapshot", "Agreeableness">>,
             <<"Collaboration Style", "Support Orientation">>,
             <<"Team Psychological Safety", "Psychological Safety">>,
             <<"Technical Influence Exchange", "Feedback Exchange">>>>
      [] c = "Mentor/Lead Relationship" ->
           <<<<"Collaboration Style", "Structure Preference">>,
             <<"Big Five Snapshot", "Openness">>,
             <<"Work Orientation & Craft", "Mastery Focus">>,
             <<"Technical Influence Exchange", "Mentorship Stance">>>>
      [] c = "Learning Community" ->
           <<<<"Big Five Snapshot", "Extraversion">>,
             <<"Big Five Snapshot", "Openness">>,
             <<"Learning Mindset & Resilience", "Challenge Resilience">>,
             <<"Learning Mindset & Resilience", "Learning Agility">>>>
      [] c = "Code Review Dynamics" ->
           <<<<"Big Five Snapshot", "Conscientiousness">>,
             <<"Team Psychological Safety", "Psychological Safety">>,
             <<"Technical Influence Exchange", "Feedback Exchange">>,
             <<"Work Orientation & Craft", "Mastery Focus">>>>

\* scores in hundredths
Levels == {30, 40, 45, 50, 60, 65, 70, 80}

\* the aggregated scores giving the score a[i] / 100 to the lookup rk[i] for
\* every i in DOMAIN a; with all_models every model has an entry
ScoresOf(rk, a, all_models) ==
    LET positions == [i \in 1..Len(rk) |-> i]
        Inner(m) ==
            LET at == SelectSeq(positions,
                                LAMBDA i : i \in DOMAIN a /\ rk[i][1] = m)
            IN [j \in 1..Len(at) |-> <<rk[at[j]][2], Frac(a[at[j]], 100)>>]
        names == SelectSeq(ModelNameSeq,
                           LAMBDA m : all_models \/ Len(Inner(m)) > 0)
    IN [j \in 1..Len(names) |-> <<names[j], Inner(names[j])>>]

InitInterpret ==
    /\ op = "interpret"
    /\ pc = "call"
    /\ \E k \in 1..Len(ContextSeq) :
         LET rk == ReadKeys(ContextSeq[k])
         IN \E S \in SUBSET (1..Len(rk)) :
              \E a \in [S -> Levels] :
                \E all_models \in BOOLEAN :
                    aggregated_scores = ScoresOf(rk, a, all_models)
    /\ models = Unused
    /\ question = Unused
    /\ raw_value = Unused
    /\ model = Unused
    /\ responses = Unused
    /\ ret = None
    /\ cli = Unused
    /\ heap = Unused
    /\ calls = Unused

\* engine.interpret_relationship_dynamics(aggregated_scores)
Interpret ==
    /\ op = "interpret"
    /\ pc = "call"
    /\ ret' = interpret_relationship_dynamics(aggregated_scores)
    /\ pc' = "done"
    /\ UNCHANGED <<op, question, raw_value, model, responses, models,
                   aggregated_scores, cli, heap, calls>>

SpecInterpret == InitInterpret /\ [][Interpret]_vars

InterpretDone == op = "interpret" /\ pc = "done"

\* C7: interpret_relationship_dynamics raises for no aggregated scores, the
\* empty dict included, and returns exactly one narrative for each of the
\* seven contexts.
C7_InterpretTotal ==
    InterpretDone =>
        /\ ret.kind = "return"
        /\ Len(ret.value) = Len(ContextSeq)
        /\ Keys(ret.value) = {ContextSeq[k] : k \in 1..Len(ContextSeq)}
        /\ \A k \in 1..Len(ret.value) : ret.value[k][2] \in STRING

\* only one dimension of one model is scored, and all seven contexts are
\* answered
C7_Witness ==
    /\ InterpretDone
    /\ aggregated_scores =
         <<<<"Attachment & Trust", <<<<"Boundary Clarity", <<3, 10>>>>>>>>>>
    /\ ret.kind = "return"
    /\ Len(ret.value) = 7
    /\ Get(ret.value, "Manager Relationship", "") = ManagerScopes

\* the score the rules see for a dimension of a model, in hundredths
\* comparisons: strictly above and strictly below pct / 100
Seen(m, d) == Get(Get(aggregated_scores, m, <<>>), d, Half)
Above(m, d, pct) ==
    LET v == Seen(m, d)
    IN \/ Num(v) * 100 > pct * Den(v)
       \/ Num(v) * 100 = pct * Den(v) /\ Ulps(v) > 0
Below(m, d, pct) ==
    LET v == Seen(m, d)
    IN \/ Num(v) * 100 < pct * Den(v)
       \/ Num(v) * 100 = pct * Den(v) /\ Ulps(v) < 0

\* the decision table of a context: its rules, in cascade order, as
\* <<condition, narrative>>
Cascade(c) ==
    CASE c = "General Liking" ->
           <<<</\ Above("Big Five Snapshot", "Agreeableness", 70)
               /\ Above("Big Five Snapshot", "Extraversion", 60)
               /\ Above("Technical Influence Exchange",
                        "Empathic Communication", 60),
               LikingSocialEase>>,
             <</\ Above("Big Five Snapshot", "Emotional Stability", 60)
               /\ Above("Technical Influence Exchange",
                        "Empathic Communication", 50),
               LikingSteady>>>>
      [] c = "Technical Collaboration" ->
           <<<</\ Above("Work Orientation & Craft", "Mastery Focus", 70)
               /\ Above("Big Five Snapshot", "Conscientiousness", 70),
               TechnicalCraft>>,
             <</\ Above("Big Five Snapshot", "Openness", 60)
               /\ Above("Work Orientation & Craft", "Autonomy Drive", 60),
               TechnicalGreenfield>>,
             <<Above("Collaboration Style", "Structure Preference", 60),
               TechnicalStructure>>>>
      [] c = "Manager Relationship" ->
           <<<</\ Above("Attachment & Trust", "Trust Propensity", 70)
               /\ Above("Technical Influence Exchange",
                        "Feedback Exchange", 60),
               ManagerReliable>>,
             <<Below("Attachment & Trust", "Boundary Clarity", 40),
               ManagerScopes>>,
             <<Above("Work Orientation & Craft", "Autonomy Drive", 65),
               ManagerRhythm>>>>
      [] c = "Peer Relationship" ->
           <<<</\ Above("Team Psychological Safety",
                        "Psychological Safety", 65)
               /\ Above("Technical Influence Exchange",
                        "Feedback Exchange", 60),
               PeerCandid>>,
             <</\ Above("Big Five Snapshot", "Agreeableness", 70)
               /\ Above("Collaboration Style", "Support Orientation", 60),
               PeerPairing>>,
             <<Below("Collaboration Style", "Support Orientation", 40),
               PeerAsync>>>>
      [] c = "Mentor/Lead Relationship" ->
           <<<</\ Above("Technical Influence Exchange",
                        "Mentorship Stance", 65)
               /\ Above("Work Orientation & Craft", "Mastery Focus", 60),
               MentorCoach>>,
             <</\ Above("Collaboration Style", "Structure Preference", 70)
               /\ Above("Big Five Snapshot", "Openness", 50),
               MentorOnboarding>>,
             <<Below("Collaboration Style", "Structure Preference", 40),
               MentorAgreements>>>>
      [] c = "Learning Community" ->
           <<<</\ Above("Big Five Snapshot", "Extraversion", 60)
               /\ Above("Learning Mindset & Resilience",
                        "Learning Agility", 60),
               CommunityDemos>>,
             <<Above("Learning Mindset & Resilience",
                     "Challenge Resilience", 65),
               CommunityIterate>>>>
      [] c = "Code Review Dynamics" ->
           <<<</\ Above("Work Orientation & Craft", "Mastery Focus", 70)
               /\ Above("Technical Influence Exchange",
                        "Feedback Exchange", 60),
               ReviewCraft>>,
             <<Below("Team Psychological Safety",
                     "Psychological Safety", 45),
               ReviewIntent>>,
             <<Above("Big Five Snapshot", "Conscientiousness", 65),
               ReviewDetail>>>>

Fallback(c) ==
    CASE c = "General Liking" -> LikingFallback
      [] c = "Technical Collaboration" -> TechnicalFallback
      [] c = "Manager Relationship" -> ManagerFallback
      [] c = "Peer Relationship" -> PeerFallback
      [] c = "Mentor/Lead Relationship" -> MentorFallback
      [] c = "Learning Community" -> CommunityFallback
      [] c = "Code Review Dynamics" -> ReviewFallback

\* C8: for each context the narrative returned is the one of the first rule
\* of the context's cascade whose condition holds, the inequalities being
\* strict, and it is the context's fallback narrative exactly when no
\* condition holds; in Manager Relationship, Trust Propensity > 0.7 with
\* Feedback Exchange > 0.6 selects the first rule's narrative also when
\* Boundary Clarity < 0.4.
C8_FirstMatchingRule ==
    InterpretDone =>
        /\ \A k \in 1..Len(ret.value) :
             LET c == ret.value[k][1]
                 rules == Cascade(c)
                 hits == {i \in 1..Len(rules) : rules[i][1]}
             IN IF hits = {}
                THEN ret.value[k][2] = Fallback(c)
                ELSE /\ \E i \in hits :
                          /\ \A j \in hits : i <= j
                          /\ ret.value[k][2] = rules[i][2]
                     /\ ret.value[k][2] # Fallback(c)
        /\ (/\ Above("Attachment & Trust", "Trust Propensity", 70)
            /\ Above("Technical Influence Exchange", "Feedback Exchange", 60)
            /\ Below("Attachment & Trust", "Boundary Clarity", 40)) =>
               Get(ret.value, "Manager Relationship", "") = ManagerReliable

\* the first and the second rule of Manager Relationship both hold
C8_Witness ==
    /\ InterpretDone
    /\ Seen("Attachment & Trust", "Trust Propensity") = <<4, 5>>
    /\ Seen("Technical Influence Exchange", "Feedback Exchange") = <<13, 20>>
    /\ Seen("Attachment & Trust", "Boundary Clarity") = <<3, 10>>
    /\ Get(ret.value, "Manager Relationship", "") = ManagerReliable

\* C9: for the empty aggregated scores every context gets its fallback
\* narrative.
C9_EmptyScoresGiveFallbacks ==
    (InterpretDone /\ aggregated_scores = <<>>) =>
        ret = Return(<<<<"General Liking", LikingFallback>>,
                       <<"Technical Collaboration", TechnicalFallback>>,
                       <<"Manager Relationship", ManagerFallback>>,
                       <<"Peer Relationship", PeerFallback>>,
                       <<"Mentor/Lead Relationship", MentorFallback>>,
                       <<"Learning Community", CommunityFallback>>,
                       <<"Code Review Dynamics", ReviewFallback>>>>)

C9_Witness ==
    /\ InterpretDone
    /\ aggregated_scores = <<>>
    /\ ret.kind = "return"
    /\ Len(ret.value) = 7

(***************************************************************************)
(* Missing models and dimensions.                                          *)
(***************************************************************************)
\* every <<model, dimension>> lookup of the seven describe functions
AllReadKeys ==
    ReadKeys(ContextSeq[1]) \o ReadKeys(ContextSeq[2])
        \o ReadKeys(ContextSeq[3]) \o ReadKeys(ContextSeq[4])
        \o ReadKeys(ContextSeq[5]) \o ReadKeys(ContextSeq[6])
        \o ReadKeys(ContextSeq[7])

\* the scores s with an entry added for the lookups rk[i..] that s lacks:
\* the missing model gets a dimension map, the missing dimension gets 1/2
RECURSIVE CompleteFrom(_, _, _)
CompleteFrom(s, rk, i) ==
    IF i > Len(rk) THEN s
    ELSE LET m == rk[i][1]
             d == rk[i][2]
             inner == IF m \in Keys(s) THEN s[Index(s, m)][2] ELSE <<>>
             filled == IF d \in Keys(inner) THEN inner
                       ELSE Append(inner, <<d, <<1, 2>>>>)
         IN CompleteFrom(Put(s, m, filled), rk, i + 1)

Completed(s) == CompleteFrom(s, AllReadKeys, 1)

\* a lookup of the rules that the aggregated scores do not hold
MissingKey(k) ==
    \/ k[1] \notin Keys(aggregated_scores)
    \/ k[2] \notin Keys(aggregated_scores[Index(aggregated_scores, k[1])][2])

\* C11: interpret_relationship_dynamics returns for every aggregated scores
\* the insights it returns for the scores completed with 0.5 for every model
\* and dimension that the rules read and the scores lack; the completed
\* scores lack none of them.
C11_MissingReadAsHalf ==
    InterpretDone =>
        LET c == Completed(aggregated_scores)
        IN /\ \A i \in 1..Len(AllReadKeys) :
                  LET k == AllReadKeys[i]
                  IN /\ k[1] \in Keys(c)
                     /\ k[2] \in Keys(c[Index(c, k[1])][2])
                     /\ Get(Get(c, k[1], <<>>), k[2], None)
                           = IF MissingKey(k) THEN Half
                             ELSE Seen(k[1], k[2])
           /\ ret = interpret_relationship_dynamics(c)

\* a partial survey: Psychological Safety is scored, Feedback Exchange is
\* not, and the peer rules fall through the rule that needs both
C11_Witness ==
    /\ InterpretDone
    /\ ~MissingKey(<<"Team Psychological Safety", "Psychological Safety">>)
    /\ Above("Team Psychological Safety", "Psychological Safety", 65)
    /\ MissingKey(<<"Technical Influence Exchange", "Feedback Exchange">>)
    /\ Completed(aggregated_scores) # aggregated_scores
    /\ ret.kind = "return"
    /\ Get(ret.value, "Peer Relationship", "") = PeerFallback

(***************************************************************************)
(* The scale of a question.                                                *)
(***************************************************************************)
\* C12: every question has scale_min < scale_max, so the divisor
\* scale_max - scale_min of normalise is a positive integer and normalise
\* fails with the range error only; stated for the calls of normalise that
\* reach the division, which are the calls with a raw value within the scale.
C12_ScaleInvariant ==
    NormaliseDone =>
        /\ InRange =>
              /\ question.scale_min < question.scale_max
              /\ question.scale_max - question.scale_min > 0
        /\ ret.kind = "raise" =>
              ret = RangeError(raw_value, question.scale_min,
                               question.scale_max)

(***************************************************************************)
(* aggregate with a response list of another length than the question     *)
(* list.                                                                   *)
(***************************************************************************)
\* C14: aggregate called with k responses for N questions, k # N, pairs the
\* first min(k, N) questions and responses in order and ignores the rest: it
\* raises only what normalise raises for one of these pairs, never an error
\* for the lengths, and otherwise returns the means of these pairs, in which
\* a dimension with no question among the first k does not appear.
C14_UnequalLengthsTruncate ==
    (AggregateDone /\ Len(responses) # Len(model.questions)) =>
        LET qs == model.questions
            n == IF Len(responses) < Len(qs) THEN Len(responses) ELSE Len(qs)
        IN IF AllInRange(qs, responses)
           THEN /\ ret.kind = "return"
                /\ IsMeansOf(ret.value, qs, responses, n)
                /\ \A d \in Dims :
                      (\A i \in PositionsOf(qs, d) : i > n) =>
                          d \notin Keys(ret.value)
           ELSE \E i \in 1..n :
                   /\ ret = normalise(qs[i], responses[i])
                   /\ ret.kind = "raise"

\* three questions and one response: the two Boundary Clarity questions have
\* no response, and only Trust Propensity is scored
C14_Witness ==
    /\ AggregateDone
    /\ model.questions =
         <<LikertScaleQuestion("Trust Propensity", FALSE, 1, 5),
           LikertScaleQuestion("Boundary Clarity", FALSE, 1, 5),
           LikertScaleQuestion("Boundary Clarity", TRUE, 1, 5)>>
    /\ responses = <<5>>
    /\ "Boundary Clarity" \notin Keys(ret.value)
    /\ ret = Return(<<<<"Trust Propensity", <<1, 1>>>>>>)

(***************************************************************************)
(* A session: one engine, and callers that call run and                    *)
(* interpret_relationship_dynamics on it while other calls are under way.  *)
(* The dicts are objects of a heap, a dict of dicts holds the addresses of *)
(* its inner dicts, and every call has a frame with its local variables.   *)
(* A step of a call is one statement of the method; the steps of the calls *)
(* under way interleave in every order.                                    *)
(***************************************************************************)
\* self.models of the engine
SessionModels ==
    <<SurveyModel("Attachment & Trust",
                  <<LikertScaleQuestion("Trust Propensity", FALSE,
                                        DefaultScaleMin, DefaultScaleMax)>>),
      SurveyModel("Technical Influence Exchange",
                  <<LikertScaleQuestion("Feedback Exchange", TRUE,
                                        DefaultScaleMin, DefaultScaleMax)>>)>>

\* The dicts the callers hold when the session starts: responses that run
\* accepts (twice, the second with its keys in the other order), responses
\* with a value outside the scale for the second model, responses that miss
\* the second model, and aggregated scores of the callers' own with their
\* inner dict.
SessionHeap ==
    <<[type |-> "responses",
       items |-> <<<<"Attachment & Trust", <<5>>>>,
                   <<"Technical Influence Exchange", <<1>>>>>>],
      [type |-> "responses",
       items |-> <<<<"Technical Influence Exchange", <<4>>>>,
                   <<"Attachment & Trust", <<2>>>>>>],
      [type |-> "responses",
       items |-> <<<<"Attachment & Trust", <<2>>>>,
                   <<"Technical Influence Exchange", <<6>>>>>>],
      [type |-> "responses",
       items |-> <<<<"Attachment & Trust", <<5>>>>>>],
      [type |-> "dimensions",
       items |-> <<<<"Trust Propensity", <<4, 5>>>>>>],
      [type |-> "scores",
       items |-> <<<<"Attachment & Trust", 5>>>>]>>

InitSession ==
    /\ op = "session"
    /\ pc = "calls"
    /\ models = SessionModels
    /\ heap = SessionHeap
    /\ calls = [c \in 1..MaxCalls |->
                   [fn |-> "none", pc |-> "idle", arg |-> 0, index |-> 0,
                    found |-> <<>>, out |-> 0, value |-> 0, ret |-> None]]
    /\ responses = Unused
    /\ aggregated_scores = Unused
    /\ question = Unused
    /\ raw_value = Unused
    /\ model = Unused
    /\ ret = None
    /\ cli = Unused

\* mutant: results is one dict of the engine, made by the first call of run
\* and used by every later one
CallRun_shared_results(c) ==
    /\ calls[c].pc = "idle"
    /\ \A b \in 1..(c - 1) : calls[b].pc # "idle"
    /\ \E a \in {b \in 1..Len(SessionHeap) :
                   SessionHeap[b].type = "responses"} :
         IF \E b \in 1..MaxCalls : calls[b].fn = "run"
         THEN /\ heap' = heap
              /\ calls' = [calls EXCEPT ![c] =
                    [calls[c] EXCEPT !.fn = "run", !.pc = "for", !.arg = a,
                                 !.out = calls[CHOOSE b \in 1..MaxCalls :
                                               calls[b].fn = "run"].out]]
         ELSE /\ heap' = Append(heap, [type |-> "scores", items |-> <<>>])
              /\ calls' = [calls EXCEPT ![c] =
                    [calls[c] EXCEPT !.fn = "run", !.pc = "for", !.arg = a,
                                 !.out = Len(heap) + 1]]
    /\ UNCHANGED <<op, pc, question, raw_value, model, responses, models,
                   aggregated_scores, ret, cli>>

\* engine.run(responses) is called with a responses dict of the caller;
\* results = {}; the frames are taken in order
CallRun(c) ==
    /\ calls[c].pc = "idle"
    /\ \A b \in 1..(c - 1) : calls[b].pc # "idle"
    /\ \E a \in {b \in 1..Len(SessionHeap) :
                   SessionHeap[b].type = "responses"} :
         calls' = [calls EXCEPT ![c] =
                     [calls[c] EXCEPT !.fn = "run", !.pc = "for", !.arg = a,
                                  !.out = Len(heap) + 1]]
    /\ heap' = Append(heap, [type |-> "scores", items |-> <<>>])
    /\ UNCHANGED <<op, pc, question, raw_value, model, responses, models,
                   aggregated_scores, ret, cli>>

\* for model in self.models: model_responses = responses.get(model.name, [])
RunGet(c) ==
    /\ calls[c].fn = "run"
    /\ calls[c].pc = "for"
    /\ calls[c].index < Len(models)
    /\ calls' = [calls EXCEPT ![c].index = @ + 1,
                              ![c].found =
                                  Get(heap[calls[c].arg].items,
                                      models[calls[c].index + 1].name, <<>>),
                              ![c].pc = "check"]
    /\ UNCHANGED <<op, pc, question, raw_value, model, responses, models,
                   aggregated_scores, ret, cli, heap>>

\* the number of responses is not the number of questions: raise ValueError
RunRaise(c) ==
    /\ calls[c].fn = "run"
    /\ calls[c].pc = "check"
    /\ Len(calls[c].found) # Len(models[calls[c].index].questions)
    /\ calls' = [calls EXCEPT ![c].pc = "done",
                              ![c].ret =
                                  ValidationError(
                                      models[calls[c].index].name,
                                      Len(models[calls[c].index].questions),
                                      Len(calls[c].found))]
    /\ UNCHANGED <<op, pc, question, raw_value, model, responses, models,
                   aggregated_scores, ret, cli, heap>>

\* model.aggregate(model_responses): the new dict of the model's scores, or
\* the error of normalise
RunAggregate(c) ==
    /\ calls[c].fn = "run"
    /\ calls[c].pc = "check"
    /\ Len(calls[c].found) = Len(models[calls[c].index].questions)
    /\ LET scores == aggregate(models[calls[c].index], calls[c].found)
       IN IF scores.kind = "raise"
          THEN /\ calls' = [calls EXCEPT ![c].pc = "done", ![c].ret = scores]
               /\ heap' = heap
          ELSE /\ calls' = [calls EXCEPT ![c].pc = "store",
                                         ![c].value = Len(heap) + 1]
               /\ heap' = Append(heap, [type |-> "dimensions",
                                        items |-> scores.value])
    /\ UNCHANGED <<op, pc, question, raw_value, model, responses, models,
                   aggregated_scores, ret, cli>>

\* results[model.name] = the dict of the model's scores
RunStore(c) ==
    /\ calls[c].fn = "run"
    /\ calls[c].pc = "store"
    /\ heap' = [heap EXCEPT ![calls[c].out].items =
                   Put(@, models[calls[c].index].name, calls[c].value)]
    /\ calls' = [calls EXCEPT ![c].pc = "for"]
    /\ UNCHANGED <<op, pc, question, raw_value, model, responses, models,
                   aggregated_scores, ret, cli>>

\* return results
RunReturn(c) ==
    /\ calls[c].fn = "run"
    /\ calls[c].pc = "for"
    /\ calls[c].index = Len(models)
    /\ calls' = [calls EXCEPT ![c].pc = "done",
                              ![c].ret = Return(calls[c].out)]
    /\ UNCHANGED <<op, pc, question, raw_value, model, responses, models,
                   aggregated_scores, ret, cli, heap>>

\* engine.interpret_relationship_dynamics(aggregated_scores) is called with
\* a scores dict a caller holds: one of its own or one that run has
\* returned; the frames are taken in order
CallInterpret(c) ==
    /\ calls[c].pc = "idle"
    /\ \A b \in 1..(c - 1) : calls[b].pc # "idle"
    /\ \E a \in {b \in 1..Len(SessionHeap) : SessionHeap[b].type = "scores"}
              \cup {calls[b].ret.value :
                      b \in {d \in 1..MaxCalls :
                               /\ calls[d].fn = "run"
                               /\ calls[d].pc = "done"
                               /\ calls[d].ret.kind = "return"}} :
         calls' = [calls EXCEPT ![c] =
                     [calls[c] EXCEPT !.fn = "interpret", !.pc = "get",
                                      !.arg = a]]
    /\ UNCHANGED <<op, pc, question, raw_value, model, responses, models,
                   aggregated_scores, ret, cli, heap>>

\* big_five = aggregated_scores.get("Big Five Snapshot", {}) and the six
\* lookups after it, one a step: the address of the inner dict, 0 for the
\* empty dict of an absent model; with the last one, insights = {}
InterpretGet(c) ==
    /\ calls[c].fn = "interpret"
    /\ calls[c].pc = "get"
    /\ LET found == Append(calls[c].found,
                           Get(heap[calls[c].arg].items,
                               ModelNameSeq[Len(calls[c].found) + 1], 0))
       IN IF Len(found) < Len(ModelNameSeq)
          THEN /\ calls' = [calls EXCEPT ![c].found = found]
               /\ heap' = heap
          ELSE /\ calls' = [calls EXCEPT ![c].found = found,
                                         ![c].pc = "describe",
                                         ![c].out = Len(heap) + 1]
               /\ heap' = Append(heap, [type |-> "insights", items |-> <<>>])
    /\ UNCHANGED <<op, pc, question, raw_value, model, responses, models,
                   aggregated_scores, ret, cli>>

\* the describe function whose narrative is stored as the k-th insight
Describe(k, s) ==
    CASE k = 1 -> describe_liking(s)
      [] k = 2 -> describe_technical_relationship(s)
      [] k = 3 -> describe_manager_relationship(s)
      [] k = 4 -> describe_peer_relationship(s)
      [] k = 5 -> describe_subordinate_relationship(s)
      [] k = 6 -> describe_chatroom_relationship(s)
      [] k = 7 -> describe_code_review(s)

\* insights["General Liking"] = describe_liking() and the six assignments
\* after it, one a step; a describe function reads the dicts the lookups
\* found, as they are when it is called
InterpretDescribe(c) ==
    /\ calls[c].fn = "interpret"
    /\ calls[c].pc = "describe"
    /\ calls[c].index < Len(ContextSeq)
    /\ LET found == calls[c].found
           present == SelectSeq([n \in 1..Len(found) |-> n],
                                LAMBDA n : found[n] # 0)
           scores == [k \in 1..Len(present) |->
                         <<ModelNameSeq[present[k]],
                           heap[found[present[k]]].items>>]
       IN heap' = [heap EXCEPT ![calls[c].out].items =
                      Put(@, ContextSeq[calls[c].index + 1],
                          Describe(calls[c].index + 1, scores))]
    /\ calls' = [calls EXCEPT ![c].index = @ + 1]
    /\ UNCHANGED <<op, pc, question, raw_value, model, responses, models,
                   aggregated_scores, ret, cli>>

\* return insights
InterpretReturn(c) ==
    /\ calls[c].fn = "interpret"
    /\ calls[c].pc = "describe"
    /\ calls[c].index = Len(ContextSeq)
    /\ calls' = [calls EXCEPT ![c].pc = "done",
                              ![c].ret = Return(calls[c].out)]
    /\ UNCHANGED <<op, pc, question, raw_value, model, responses, models,
                   aggregated_scores, ret, cli, heap>>

SessionNext ==
    \E c \in 1..MaxCalls :
        \/ CallRun(c)
        \/ RunGet(c)
        \/ RunRaise(c)
        \/ RunAggregate(c)
        \/ RunStore(c)
        \/ RunReturn(c)
        \/ CallInterpret(c)
        \/ InterpretGet(c)
        \/ InterpretDescribe(c)
        \/ InterpretReturn(c)

SpecSession == InitSession /\ [][SessionNext]_vars

\* the calls that have returned a dict
Returned == {c \in 1..MaxCalls : calls[c].pc = "done"
                                   /\ calls[c].ret.kind = "return"}

\* the value of the scores dict at the address a: a dict of dicts
ScoresAt(a) ==
    [k \in 1..Len(heap[a].items) |->
        <<heap[a].items[k][1], heap[heap[a].items[k][2]].items>>]

\* the outcome of a finished call, as a value
OutcomeOf(c) ==
    IF calls[c].ret.kind = "raise" THEN calls[c].ret
    ELSE IF calls[c].fn = "run" THEN Return(ScoresAt(calls[c].ret.value))
    ELSE Return(heap[calls[c].ret.value].items)

\* the outcome of the same call made alone on the engine as constructed,
\* with the argument as the caller handed it over
AloneOutcomeOf(c) ==
    IF calls[c].fn = "run"
    THEN run(SessionModels, SessionHeap[calls[c].arg].items)
    ELSE interpret_relationship_dynamics(ScoresAt(calls[c].arg))

\* the objects of the dict a call has returned: the dict and, for scores,
\* its inner dicts
ObjectsOf(c) ==
    {calls[c].ret.value}
    \cup IF calls[c].fn = "run"
         THEN {heap[calls[c].ret.value].items[k][2] :
                 k \in 1..Len(heap[calls[c].ret.value].items)}
         ELSE {}

\* C13: under every interleaving of the steps of calls of run and of
\* interpret_relationship_dynamics on one engine, the engine's models with
\* their questions and every dict a caller handed over stay as they were,
\* the outcome of every finished call is, from then on, the outcome of the
\* same call made alone (it depends only on the call's argument and the
\* catalog), and a returned dict is freshly built: none of its objects is
\* an object the callers held before or an object of a dict another call
\* returned.
C13_CallsArePure ==
    /\ models = SessionModels
    /\ SubSeq(heap, 1, Len(SessionHeap)) = SessionHeap
    /\ \A c \in 1..MaxCalls :
           calls[c].pc = "done" => OutcomeOf(c) = AloneOutcomeOf(c)
    /\ \A c \in Returned :
           /\ ObjectsOf(c) \cap 1..Len(SessionHeap) = {}
           /\ \A b \in Returned \ {c} : ObjectsOf(c) \cap ObjectsOf(b) = {}
           /\ calls[c].fn = "run" =>
                  Cardinality(ObjectsOf(c))
                      = 1 + Len(heap[calls[c].ret.value].items)

\* two calls of run with different responses were under way at the same
\* time (the second made its results dict after the first made its own and
\* before the first made the dict of its first model) and both have
\* returned, with different scores
C13_Witness ==
    /\ Returned = {1, 2}
    /\ calls[1].fn = "run"
    /\ calls[2].fn = "run"
    /\ calls[1].arg # calls[2].arg
    /\ calls[1].ret.value < calls[2].ret.value
    /\ \A a \in ObjectsOf(1) \ {calls[1].ret.value} : a > calls[2].ret.value
    /\ OutcomeOf(1) # OutcomeOf(2)

(***************************************************************************)
(* The default catalog: the dimension and the scoring direction of every   *)
(* question of default_models(), all on the default scale.                 *)
(***************************************************************************)
DefaultQuestion(dimension, reverse_scored) ==
    LikertScaleQuestion(dimension, reverse_scored,
                        DefaultScaleMin, DefaultScaleMax)

big_five_questions ==
    <<DefaultQuestion("Extraversion", FALSE),
      DefaultQuestion("Agreeableness", TRUE),
      DefaultQuestion("Conscientiousness", FALSE),
      DefaultQuestion("Emotional Stability", TRUE),
      DefaultQuestion("Openness", FALSE),
      DefaultQuestion("Extraversion", TRUE),
      DefaultQuestion("Agreeableness", FALSE),
      DefaultQuestion("Conscientiousness", TRUE),
      DefaultQuestion("Emotional Stability", FALSE),
      DefaultQuestion("Openness", FALSE),
      DefaultQuestion("Extraversion", FALSE),
      DefaultQuestion("Agreeableness", TRUE),
      DefaultQuestion("Conscientiousness", FALSE),
      DefaultQuestion("Emotional Stability", FALSE),
      DefaultQuestion("Openness", FALSE),
      DefaultQuestion("Extraversion", TRUE),
      DefaultQuestion("Agreeableness", FALSE),
      DefaultQuestion("Conscientiousness", TRUE),
      DefaultQuestion("Emotional Stability", TRUE),
      DefaultQuestion("Openness", FALSE)>>

attachment_questions ==
    <<DefaultQuestion("Trust Propensity", FALSE),
      DefaultQuestion("Trust Propensity", TRUE),
      DefaultQuestion("Boundary Clarity", FALSE),
      DefaultQuestion("Boundary Clarity", TRUE)>>

collaboration_questions ==
    <<DefaultQuestion("Support Orientation", FALSE),
      DefaultQuestion("Structure Preference", FALSE),
      DefaultQuestion("Support Orientation", FALSE),
      DefaultQuestion("Structure Preference", TRUE),
      DefaultQuestion("Support Orientation", FALSE),
      DefaultQuestion("Structure Preference", FALSE)>>

work_orientation_questions ==
    <<DefaultQuestion("Autonomy Drive", FALSE),
      DefaultQuestion("Mastery Focus", FALSE),
      DefaultQuestion("Purpose Alignment", FALSE),
      DefaultQuestion("Autonomy Drive", TRUE),
      DefaultQuestion("Mastery Focus", FALSE),
      DefaultQuestion("Purpose Alignment", FALSE)>>

psychological_safety_questions ==
    <<DefaultQuestion("Psychological Safety", FALSE),
      DefaultQuestion("Psychological Safety", TRUE),
      DefaultQuestion("Psychological Safety", FALSE),
      DefaultQuestion("Psychological Safety", FALSE),
      DefaultQuestion("Psychological Safety", TRUE),
      DefaultQuestion("Psychological Safety", FALSE),
      DefaultQuestion("Psychological Safety", FALSE)>>

learning_mindset_questions ==
    <<DefaultQuestion("Learning Agility", FALSE),
      DefaultQuestion("Learning Agility", TRUE),
      DefaultQuestion("Challenge Resilience", FALSE),
      DefaultQuestion("Challenge Resilience", TRUE),
      DefaultQuestion("Learning Agility", FALSE),
      DefaultQuestion("Challenge Resilience", FALSE)>>

influence_exchange_questions ==
    <<DefaultQuestion("Empathic Communication", FALSE),
      DefaultQuestion("Feedback Exchange", FALSE),
      DefaultQuestion("Mentorship Stance", FALSE),
      DefaultQuestion("Empathic Communication", TRUE),
      DefaultQuestion("Feedback Exchange", FALSE),
      DefaultQuestion("Mentorship Stance", FALSE)>>

default_models ==
    <<SurveyModel("Big Five Snapshot",
                  big_five_questions),
      SurveyModel("Attachment & Trust",
                  attachment_questions),
      SurveyModel("Collaboration Style",
                  collaboration_questions),
      SurveyModel("Work Orientation & Craft",
                  work_orientation_questions),
      SurveyModel("Team Psychological Safety",
                  psychological_safety_questions),
      SurveyModel("Learning Mindset & Resilience",
                  learning_mindset_questions),
      SurveyModel("Technical Influence Exchange",
                  influence_exchange_questions)>>

(***************************************************************************)
(* The survey of the command line, cli.py.  A line read by input() is the  *)
(* sequence of the code points of its characters.  int() skips the white   *)
(* space at both ends, takes an optional sign and reads decimal digits of  *)
(* any script, with single underscores between digits.                     *)
(***************************************************************************)
\* the characters int() skips at both ends of the text
Whitespace ==
    {9, 10, 11, 12, 13, 32, 133, 160, 5760} \cup (8192..8202)
        \cup {8232, 8233, 8239, 8287, 12288}

\* the code points of the digit zero of every script; the digits 1 to 9 of
\* the script follow it
DecimalZeros ==
    {48, 1632, 1776, 1984, 2406, 2534, 2662, 2790, 2918, 3046, 3174,
     3302, 3430, 3558, 3664, 3792, 3872, 4160, 4240, 6112, 6160, 6470,
     6608, 6784, 6800, 6992, 7088, 7232, 7248, 42528, 43216, 43264,
     43472, 43504, 43600, 44016, 65296, 66720, 68912, 69734, 69872,
     69942, 70096, 70384, 70736, 70864, 71248, 71360, 71472, 71904,
     72016, 72784, 73040, 73120, 92768, 92864, 93008, 120782, 120792,
     120802, 120812, 120822, 123200, 123632, 125264, 130032}

IsDigit(c) == \E z \in DecimalZeros : c \in z..(z + 9)
DigitValue(c) == c - (CHOOSE z \in DecimalZeros : c \in z..(z + 9))

RECURSIVE lstrip(_)
lstrip(text) ==
    IF text # <<>> /\ Head(text) \in Whitespace THEN lstrip(Tail(text))
    ELSE text

RECURSIVE rstrip(_)
rstrip(text) ==
    IF text # <<>> /\ text[Len(text)] \in Whitespace
    THEN rstrip(SubSeq(text, 1, Len(text) - 1))
    ELSE text

\* digits, with single underscores (the character 95) between digits only
IsDecimalLiteral(s) ==
    /\ s # <<>>
    /\ IsDigit(s[1])
    /\ IsDigit(s[Len(s)])
    /\ \A i \in 1..Len(s) : IsDigit(s[i]) \/ s[i] = 95
    /\ \A i \in 1..(Len(s) - 1) : ~(s[i] = 95 /\ s[i + 1] = 95)

\* the number written by the digits, most significant first, underscores
\* skipped
RECURSIVE DecimalValue(_)
DecimalValue(s) ==
    IF s = <<>> THEN 0
    ELSE LET front == DecimalValue(SubSeq(s, 1, Len(s) - 1))
             last == s[Len(s)]
         IN IF last = 95 THEN front
            ELSE front * 10 + DigitValue(last)

IntValueError == [kind |-> "raise", exc |-> "ValueError", raised_by |-> "int"]
EOFError == [kind |-> "raise", exc |-> "EOFError"]

\* the most digits int converts (sys.get_int_max_str_digits() of the
\* interpreter as started); a text with more raises ValueError
int_max_str_digits == 4300

\* int(text): the digits are counted with their leading zeros and without
\* the sign, the whitespace around and the underscores
int(text) ==
    LET s == rstrip(lstrip(text))
        signed == s # <<>> /\ Head(s) \in {43, 45}
        literal == IF signed THEN Tail(s) ELSE s
    IN IF ~IsDecimalLiteral(literal) THEN IntValueError
       ELSE IF Len(SelectSeq(literal, IsDigit)) > int_max_str_digits
       THEN IntValueError
       ELSE Return(IF signed /\ Head(s) = 45 THEN 0 - DecimalValue(literal)
                   ELSE DecimalValue(literal))

\* mutant: the range test of prompt_for_responses lets 0 through
out_of_range_below_zero(value) == value < 0 \/ value > 5

\* the range test of prompt_for_responses
out_of_range(value) == value < 1 \/ value > 5

\* the lines the user types: "abc" and "2.5", which are no integers, "0"
\* and "6", which are outside 1..5, and the answers "1", "3" and, after a
\* tab, "5"
InputLines ==
    {<<97, 98, 99>>, <<50, 46, 53>>,
     <<48>>, <<54>>,
     <<49>>, <<51>>, <<9, 53>>}

Neutral == (DefaultScaleMin + DefaultScaleMax) \div 2

Varied(values) ==
    Cardinality({i \in 1..Len(values) : values[i] # Neutral})

\* the answers other than the neutral one given so far in the survey: those
\* of the first k stored lists and of the current list
RECURSIVE VariedAnswers(_, _, _)
VariedAnswers(collected, k, current) ==
    IF k = 0 THEN Varied(current)
    ELSE Varied(collected[k][2]) + VariedAnswers(collected, k - 1, current)

(***************************************************************************)
(* run_cli.  A responses file is unreadable, or no JSON text, or holds a   *)
(* JSON value: a value is a record with its type and, for an object, its   *)
(* items in order, for an array its items, for an integer or a boolean its *)
(* value.                                                                  *)
(***************************************************************************)
JInt(n) == [type |-> "int", value |-> n]
JBool(b) == [type |-> "bool", value |-> b]
JStr(s) == [type |-> "str", value |-> s]
JList(items) == [type |-> "list", items |-> items]
JDict(items) == [type |-> "dict", items |-> items]

FileNotFoundError == [kind |-> "raise", exc |-> "FileNotFoundError"]
JSONDecodeError ==
    [kind |-> "raise", exc |-> "ValueError", raised_by |-> "json.loads"]
LoadError(message) ==
    [kind |-> "raise", exc |-> "ValueError",
     raised_by |-> "load_responses_from_file", message |-> message]
UnhandledCommand(command) ==
    [kind |-> "raise", exc |-> "ValueError", raised_by |-> "run_cli",
     command |-> command]

\* isinstance(item, int): an integer or a boolean, which is an integer
IsInstanceInt(item) == item.type \in {"int", "bool"}
\* the integer an item is: True is 1 and False is 0
IntOf(item) ==
    IF item.type = "bool" THEN (IF item.value THEN 1 ELSE 0) ELSE item.value

\* load_responses_from_file(path)
load_responses_from_file(file) ==
    IF ~file.readable THEN FileNotFoundError
    ELSE IF ~file.json THEN JSONDecodeError
    ELSE LET payload == file.payload
         IN IF payload.type # "dict"
            THEN LoadError("Response file must contain a JSON object.")
            ELSE IF \E i \in 1..Len(payload.items) :
                       LET values == payload.items[i][2]
                       IN \/ values.type # "list"
                          \/ \E j \in 1..Len(values.items) :
                                ~IsInstanceInt(values.items[j])
            THEN LoadError("Every model entry must be an array of integers "
                           \o "representing Likert scores.")
            ELSE Return([i \in 1..Len(payload.items) |->
                     <<payload.items[i][1],
                       [j \in 1..Len(payload.items[i][2].items) |->
                           IntOf(payload.items[i][2].items[j])]>>])

\* an object with an array of the item v for every question of every model
\* of the default catalog
FullPayload(v) ==
    JDict([i \in 1..Len(default_models) |->
              <<default_models[i].name,
                JList([j \in 1..Len(default_models[i].questions) |-> v])>>])

\* the JSON values of the responses files: an array, objects with an entry
\* that is no array of integers, objects that miss a model or a response or
\* hold a response outside the scale, and objects with a response within the
\* scale for every question
Payloads ==
    <<JList(<<JInt(3)>>),
      JDict(<<>>),
      JDict(<<<<"Attachment & Trust", JStr("3, 3, 3, 3")>>>>),
      JDict(<<<<"Attachment & Trust", JList(<<JInt(3), JStr("3")>>)>>>>),
      JDict(<<<<"Big Five Snapshot",
                JList(Tail(FullPayload(JInt(3)).items[1][2].items))>>>>),
      FullPayload(JInt(6)),
      FullPayload(JBool(FALSE)),
      FullPayload(JBool(TRUE)),
      FullPayload(JInt(1)),
      FullPayload(JInt(5))>>

\* the responses files: a missing file, a file without JSON text, and a
\* file for each of the values
ResponseFiles ==
    <<[readable |-> FALSE],
      [readable |-> TRUE, json |-> FALSE]>>
      \o [k \in 1..Len(Payloads) |->
            [readable |-> TRUE, json |-> TRUE, payload |-> Payloads[k]]]

\* run_cli(args) is called.  cli holds, once the command "run" has its
\* responses, whether they are collected interactively and what is saved to
\* the output file, and for the interactive survey the position of the model
\* in engine.models and, of prompt_for_responses, the index of the question,
\* the list of responses and the line last read.
InitCli ==
    /\ op = "run_cli"
    /\ pc = "call"
    /\ models = Unused
    /\ model = Unused
    /\ responses = Unused
    /\ cli = Unused
    /\ heap = Unused
    /\ calls = Unused
    /\ question = Unused
    /\ raw_value = Unused
    /\ aggregated_scores = Unused
    /\ ret = None

\* the command "models": the catalog is printed
CliListModels ==
    /\ op = "run_cli"
    /\ pc = "call"
    /\ models' = default_models
    /\ ret' = Return(None)
    /\ pc' = "done"
    /\ UNCHANGED <<op, question, raw_value, model, responses,
                   aggregated_scores, cli, heap, calls>>

\* a command other than "models" and "run"
CliUnhandledCommand ==
    /\ op = "run_cli"
    /\ pc = "call"
    /\ models' = default_models
    \* a command the argument parser does not offer
    /\ \E command \in {"export"} : ret' = UnhandledCommand(command)
    /\ pc' = "done"
    /\ UNCHANGED <<op, question, raw_value, model, responses,
                   aggregated_scores, cli, heap, calls>>

\* the command "run" with a responses file: the file is loaded and, unless
\* that fails, engine.run(responses) is called
CliLoadResponses ==
    /\ op = "run_cli"
    /\ pc = "call"
    /\ models' = default_models
    /\ \E k \in 1..Len(ResponseFiles) :
         LET loaded == load_responses_from_file(ResponseFiles[k])
         IN IF loaded.kind = "raise"
            THEN /\ ret' = loaded
                 /\ pc' = "done"
                 /\ UNCHANGED <<op, responses, cli>>
            ELSE /\ responses' = loaded.value
                 /\ cli' = [interactive |-> FALSE, saved |-> None]
                 /\ op' = "run"
                 /\ pc' = "call"
                 /\ UNCHANGED ret
    /\ UNCHANGED <<question, raw_value, model, aggregated_scores, heap,
                   calls>>

\* the command "run" without a responses file: the empty responses dict and
\* the first call of prompt_for_responses
CliStartSurvey ==
    /\ op = "run_cli"
    /\ pc = "call"
    /\ models' = default_models
    /\ model' = default_models[1]
    /\ responses' = <<>>
    /\ cli' = [interactive |-> TRUE, saved |-> None, model_index |-> 1,
               index |-> 1, responses |-> <<>>, text |-> <<>>]
    /\ pc' = "prompt"
    /\ UNCHANGED <<op, question, raw_value, aggregated_scores, ret, heap,
                   calls>>

Prompting ==
    /\ op = "run_cli"
    /\ pc = "prompt"
    /\ cli.index <= Len(model.questions)

\* int(input(...)) raises ValueError: the question is asked again
PromptNotInteger ==
    /\ Prompting
    /\ \E text \in InputLines :
         /\ int(text).kind = "raise"
         /\ cli' = [cli EXCEPT !.text = <<text>>]
    /\ UNCHANGED <<op, pc, question, raw_value, model, responses, models,
                   aggregated_scores, ret, heap, calls>>

\* the integer fails the range test: the question is asked again
PromptOutOfRange ==
    /\ Prompting
    /\ \E text \in InputLines :
         /\ int(text).kind = "return"
         /\ out_of_range(int(text).value)
         /\ cli' = [cli EXCEPT !.text = <<text>>]
    /\ UNCHANGED <<op, pc, question, raw_value, model, responses, models,
                   aggregated_scores, ret, heap, calls>>

\* the integer passes the range test: it is appended and the loop goes on to
\* the next question
PromptAppend ==
    /\ Prompting
    /\ \E text \in InputLines :
         LET value == int(text)
         IN /\ value.kind = "return"
            /\ ~out_of_range(value.value)
            /\ \/ value.value = Neutral
               \/ VariedAnswers(responses, Len(responses), cli.responses)
                    < MaxVariedAnswers
            /\ cli' = [cli EXCEPT !.text = <<text>>,
                                  !.responses = Append(@, value.value),
                                  !.index = @ + 1]
    /\ UNCHANGED <<op, pc, question, raw_value, model, responses, models,
                   aggregated_scores, ret, heap, calls>>

\* input() finds the end of the input: EOFError leaves
\* prompt_for_responses and run_cli, whose locals are gone with them
PromptEndOfInput ==
    /\ Prompting
    /\ ret' = EOFError
    /\ pc' = "done"
    /\ cli' = Unused
    /\ responses' = Unused
    /\ model' = Unused
    /\ models' = Unused
    /\ UNCHANGED <<op, question, raw_value, aggregated_scores, heap, calls>>

\* prompt_for_responses returns its list, run_cli stores it under the name of
\* the model and goes on to the next model or, after the last, calls
\* engine.run(responses)
PromptReturn ==
    /\ op = "run_cli"
    /\ pc = "prompt"
    /\ cli.index > Len(model.questions)
    /\ responses' = Put(responses, model.name, cli.responses)
    /\ IF cli.model_index < Len(models)
       THEN /\ model' = models[cli.model_index + 1]
            /\ cli' = [cli EXCEPT !.model_index = @ + 1, !.index = 1,
                                  !.responses = <<>>]
            /\ UNCHANGED <<op, pc>>
       ELSE /\ op' = "run"
            /\ pc' = "call"
            /\ UNCHANGED <<model, cli>>
    /\ UNCHANGED <<question, raw_value, models, aggregated_scores, ret, heap,
                   calls>>

\* run_cli calls engine.interpret_relationship_dynamics(aggregated)
CliCallInterpret ==
    /\ cli # Unused
    /\ op = "run"
    /\ pc = "done"
    /\ ret.kind = "return"
    /\ op' = "interpret"
    /\ pc' = "call"
    /\ aggregated_scores' = ret.value
    /\ ret' = None
    /\ UNCHANGED <<question, raw_value, model, models, responses, cli, heap,
                   calls>>

\* the summary is printed and, with an output path, the scores and the
\* insights are saved; run_cli returns
CliFinish ==
    /\ cli # Unused
    /\ op = "interpret"
    /\ pc = "done"
    /\ \E output \in BOOLEAN :
         cli' = IF output
                THEN [cli EXCEPT !.saved =
                         [aggregated_scores |-> aggregated_scores,
                          relationship_insights |-> ret.value]]
                ELSE cli
    /\ op' = "run_cli"
    /\ ret' = Return(None)
    /\ UNCHANGED <<pc, question, raw_value, model, models, responses,
                   aggregated_scores, heap, calls>>

CliNext ==
    \/ CliListModels
    \/ CliUnhandledCommand
    \/ CliLoadResponses
    \/ CliStartSurvey
    \/ PromptNotInteger
    \/ PromptOutOfRange
    \/ PromptAppend
    \/ PromptEndOfInput
    \/ PromptReturn
    \/ Run
    \/ CliCallInterpret
    \/ Interpret
    \/ CliFinish

SpecCli == InitCli /\ [][CliNext]_vars

\* the lines that are an answer, and the answer each of them gives
AnswerLines == {<<49>>, <<51>>, <<9, 53>>}
AnswerOf(text) ==
    CASE text = <<49>> -> 1
      [] text = <<51>> -> 3
      [] text = <<9, 53>> -> 5

\* a step of the loop of prompt_for_responses: a line is read and the
\* function neither returns nor is left by an exception
InputStep ==
    /\ op = "run_cli" /\ pc = "prompt"
    /\ op' = "run_cli" /\ pc' = "prompt"
    /\ cli'.model_index = cli.model_index
    /\ cli' # cli

\* prompt_for_responses returns
ReturnStep ==
    /\ op = "run_cli" /\ pc = "prompt"
    /\ cli' # Unused
    /\ cli'.model_index # cli.model_index \/ op' = "run"

\* C15: whatever the user types, a line that is an integer in 1..5 appends
\* that integer and moves prompt_for_responses to the next question, and any
\* other line appends nothing and leaves it at the same question; so the
\* list holds the answers to the questions before the current one, and when
\* the function returns the list stored for the model has one response per
\* question, each in 1..5; and engine.run on the responses collected for the
\* default catalog raises no error and scores all seven models.
C15_InteractiveResponsesAreValid ==
    /\ [](op = "run_cli" /\ pc = "prompt" =>
            /\ Len(cli.responses) = cli.index - 1
            /\ cli.index <= Len(model.questions) + 1
            /\ model = models[cli.model_index])
    /\ []((cli # Unused /\ op = "run" /\ pc = "done") =>
            (cli.interactive =>
                /\ ret.kind = "return"
                /\ KeySeq(ret.value) = ModelNameSeq))
    /\ [][/\ InputStep =>
               /\ responses' = responses
               /\ IF cli'.text[1] \in AnswerLines
                  THEN /\ cli'.index = cli.index + 1
                       /\ cli'.responses =
                            Append(cli.responses, AnswerOf(cli'.text[1]))
                  ELSE /\ cli'.index = cli.index
                       /\ cli'.responses = cli.responses
          /\ ReturnStep =>
               /\ responses' = Append(responses,
                                      <<model.name, cli.responses>>)
               /\ Len(cli.responses) = Len(model.questions)
               /\ \A i \in 1..Len(cli.responses) :
                     cli.responses[i] \in 1..5]_vars

\* the survey was answered to the end, the last answer typed as a tab and
\* "5", and engine.run has returned the scores of the collected responses
C15_Witness ==
    /\ cli # Unused
    /\ op = "run" /\ pc = "done"
    /\ cli.interactive
    /\ cli.text = << <<9, 53>> >>
    /\ Len(responses) = Len(default_models)
    /\ Get(responses, "Technical Influence Exchange", <<>>)
         = <<3, 3, 3, 3, 3, 5>>
    /\ ret.kind = "return"
    /\ Get(Get(ret.value, "Technical Influence Exchange", <<>>),
           "Mentorship Stance", None) = <<3, 4>>

====
